---- MODULE Spec2Model ----
(***************************************************************************)
(* Model of mqttadapters/irkit.py: the zeroconf listener (HostListener),   *)
(* the per-device polling thread (IRKitHost) and its ReceivedQueue, and    *)
(* the MQTT callbacks.  Three kinds of threads run concurrently:          *)
(*   - the discovery thread (add_service / remove_service),                *)
(*   - the bus thread (on_connect / on_message, and through it post()),    *)
(*   - one worker thread per IRKitHost object (run()).                     *)
(* Strings are sequences of one-character strings, so that get_topic's     *)
(* truncation at the first '.' is computed, not assumed.                   *)
(***************************************************************************)
EXTENDS Integers, Sequences, FiniteSets, TLC

\* ------------------------------------------------------------------ bounds
\* Number of IRKitHost objects the listener may construct in one run.
MaxHosts == 2

\* Number of bus sessions counted in obs.sessions.
MaxSessions == 2

\* ------------------------------------------------------- program constants
SERVICE_TIMEOUT == 60
\* service_timeout = None
NONE == -1
\* ReceivedQueue(5)
QueueSize == 5
\* threading.Semaphore(): initial value
SemInit == 1

\* ------------------------------------------------------------------ strings
TOPIC_BASE == <<"i", "r", "k", "i", "t", "/">>
MESSAGES == <<"/", "m", "e", "s", "s", "a", "g", "e", "s">>
ALL == <<"a", "l", "l">>
ERROR_TOPIC == TOPIC_BASE \o <<"e", "r", "r", "o", "r">>

\* Discovery names the browser may report: two that share the part before
\* the first '.', and one without a '.'.
NameAL == <<"a", ".", "l">>
NameAN == <<"a", ".", "n">>
NameB == <<"b">>
Names == {NameAL, NameAN, NameB}
NoName == <<>>

Range(s) == {s[i] : i \in 1..Len(s)}

\* s.index(c): position of the first c in s (s contains c).
IndexOf(s, c) == CHOOSE i \in 1..Len(s) : s[i] = c /\ \A j \in 1..(i - 1) : s[j] # c

StartsWith(s, p) == Len(s) >= Len(p) /\ SubSeq(s, 1, Len(p)) = p
EndsWith(s, p) == Len(s) >= Len(p) /\ SubSeq(s, Len(s) - Len(p) + 1, Len(s)) = p

get_topic(name) ==
    IF "." \in Range(name)
    THEN TOPIC_BASE \o SubSeq(name, 1, IndexOf(name, ".") - 1)
    ELSE TOPIC_BASE \o name

get_messages_topic(name) == get_topic(name) \o MESSAGES

ALL_TOPIC == TOPIC_BASE \o ALL \o MESSAGES

\* ------------------------------------------------------------------ payloads
\* Signals (parsed JSON values) and the raw payload strings of the bus.
Payloads == {1, 2}
NoMsg == 0
RawPayloads == {"1", "2", "{"}

\* A json.loads that returns a value for every payload, never ValueError
JsonLoads_lenient(raw) ==
    CASE raw = "1" -> [ok |-> TRUE, value |-> 1]
      [] raw = "2" -> [ok |-> TRUE, value |-> 2]
      [] OTHER -> [ok |-> TRUE, value |-> 1]

\* json.loads: a value, or ValueError.
JsonLoads(raw) ==
    CASE raw = "1" -> [ok |-> TRUE, value |-> 1]
      [] raw = "2" -> [ok |-> TRUE, value |-> 2]
      [] OTHER -> [ok |-> FALSE, value |-> NoMsg]

\* json.dumps
JsonDumps(v) == IF v = 1 THEN "1" ELSE "2"

\* ---------------------------------------------------------- ReceivedQueue
\* put, first half: self.items.append(item)
PutAppend(q, item) == Append(q, item)

\* put, second half: if len(self.items) > self.size: del self.items[-1]
PutEvict(q) == IF Len(q) > QueueSize THEN SubSeq(q, 1, Len(q) - 1) ELSE q

\* del self.items[found]
DelAt(q, found) == SubSeq(q, 1, found - 1) \o SubSeq(q, found + 1, Len(q))

\* ------------------------------------------------------------------- state
VARIABLES
    hosts,      \* HostListener.hosts: discovery name -> IRKitHost id, 0 = no entry
    removed,    \* HostListener.removed
    obj,        \* the IRKitHost objects constructed so far, by id
    items,      \* ReceivedQueue.items, a class attribute: one list for all queues
    subs,       \* topics the MQTT client is subscribed to
    bus,        \* the bus thread: on_message in progress, and what it did
    obs         \* calls seen by the MQTT client and by a queue under test

vars == <<hosts, removed, obj, items, subs, bus, obs>>

Ids == 1..MaxHosts

\* Worker positions inside run(): "check" at _is_in_service, "poll" waiting
\* for self.sem, "get" GET in flight, "put" waiting for queue.lock, "evict"
\* inside put() after the append, "pub" at mqtt_client.publish, "fin" out of
\* the loop, "done" after on_finished.
InLoop == {"check", "poll", "get", "put", "evict", "pub"}
Exited == {"fin", "done"}

\* An IRKitHost.  Fields of the code: name, service_timeout, sem, qlock
\* (queue.lock: "free", "worker" or "bus"), pc and msg (the thread).
\* History of the calls made on it: since / first (liveness checks since the
\* most recent / the earliest inactivate() that no activate() has followed),
\* leaves and fins (times the loop was left, on_finished was called), revived
\* (the last activate() found it draining, in its loop), posted (the signal
\* last POSTed and not yet followed by an answered poll), echo (msg is that
\* signal), win (the last QueueSize signals put by this worker's poll and not
\* consumed by a post() on it).
Unborn ==
    [name |-> NoName, service_timeout |-> NONE, sem |-> SemInit, qlock |-> "free",
     pc |-> "unborn", msg |-> NoMsg,
     since |-> NONE, first |-> NONE, leaves |-> 0, fins |-> 0, revived |-> FALSE,
     posted |-> NoMsg, echo |-> FALSE, win |-> <<>>]

\* IRKitHost.__init__ followed by start()
NewHost(name) == [Unborn EXCEPT !.name = name, !.pc = "check"]

Born == {i \in Ids : obj[i].pc # "unborn"}

\* The bus thread.  pc: "idle" between callbacks; inside post() on object cur:
\* "has" before queue.has, "hasidx" and "hasdel" inside it, "send" waiting for
\* the semaphore, "post" POST in flight; "done" at the return of on_message;
\* "crashed" after an exception left on_message.  todo: the objects
\* on_message has still to call after cur.  What this on_message did: snap
\* (the objects in the registry when it looked), invoked (post() called), sent
\* (POST issued), skipped (has() returned True), expectSkip (the signal was in
\* win), errs (publications on ERROR_TOPIC).
IdleBus ==
    [pc |-> "idle", topic |-> <<>>, raw |-> "", cmd |-> NoMsg,
     todo |-> <<>>, cur |-> 0, found |-> 0,
     snap |-> {}, invoked |-> {}, sent |-> {}, skipped |-> {}, expectSkip |-> {},
     errs |-> 0]

\* status is the last status event published by the listener; subFlip changes
\* at every subscribe() of add_service; log holds the last calls of a queue
\* used by one thread; conn says that the client has a connection to the
\* broker (main() connects before discovery starts), sessions counts the
\* on_connect callbacks that opened a session.
NoObs ==
    [status |-> [status |-> "none", name |-> NoName], subFlip |-> FALSE, log |-> <<>>,
     conn |-> TRUE, sessions |-> 0]

\* publish(get_topic(name), {'status': status, 'type': type, 'name': name})
Status(o, status, name) == [o EXCEPT !.status = [status |-> status, name |-> name]]

Init ==
    /\ hosts = [n \in Names |-> 0]
    /\ removed = <<>>
    /\ obj = [i \in Ids |-> Unborn]
    /\ items = <<>>
    /\ subs = {}
    /\ bus = IdleBus
    /\ obs = NoObs

Running == bus.pc # "crashed"

\* ------------------------------------------------------------ HostListener
\* mqtt_client.subscribe(topic) for the topics of T: without a connection the
\* client sends nothing.
Subscribed(S, T) == IF obs.conn THEN S \cup T ELSE S
\* A _refresh_hosts that also deletes the entries that are draining
RefreshedHosts_eager ==
    [n \in Names |-> IF \/ n \in Range(removed)
                        \/ (hosts[n] # 0 /\ obj[hosts[n]].service_timeout # NONE)
                     THEN 0 ELSE hosts[n]]

\* _refresh_hosts: del self.hosts[name] for every name in removed, ...
RefreshedHosts == [n \in Names |-> IF n \in Range(removed) THEN 0 ELSE hosts[n]]

\* ... and unsubscribe(get_messages_topic(name)) for each of them.
RefreshedSubs == subs \ {get_messages_topic(n) : n \in Range(removed)}

\* An activate that leaves service_timeout as it is
activate_forgotten(o) == o

\* IRKitHost.activate
activate(o) ==
    [o EXCEPT !.service_timeout = NONE, !.since = NONE, !.first = NONE,
              !.revived = (o.service_timeout >= 1 /\ o.pc \in InLoop)]

\* IRKitHost.inactivate
inactivate(o) ==
    [o EXCEPT !.service_timeout = SERVICE_TIMEOUT,
              !.since = 0,
              !.first = IF o.first = NONE THEN 0 ELSE o.first]

\* The entry of n is draining and its countdown has not elapsed.
Draining(n) ==
    /\ hosts[n] # 0
    /\ obj[hosts[n]].pc \in InLoop
    /\ obj[hosts[n]].service_timeout >= 1

\* add_service(zeroconf, type, name); info is what get_service_info returned
\* (TRUE: a ServiceInfo, FALSE: None).
add_service(name, info) ==
    /\ Running
    /\ LET known == RefreshedHosts[name] # 0
           id == Cardinality(Born) + 1
       IN  /\ (info /\ ~known) => id \in Ids
           /\ IF info /\ ~known
              THEN /\ hosts' = [RefreshedHosts EXCEPT ![name] = id]
                   /\ obj' = [obj EXCEPT ![id] = NewHost(name)]
                   /\ subs' = Subscribed(RefreshedSubs, {get_messages_topic(name)})
                   /\ obs' = Status([obs EXCEPT !.subFlip = ~@], "added", name)
              ELSE /\ hosts' = RefreshedHosts
                   /\ subs' = RefreshedSubs
                   /\ obs' = Status(obs, "added", name)
                   /\ IF info
                      THEN obj' = [obj EXCEPT ![RefreshedHosts[name]] = activate(@)]
                      ELSE obj' = obj
    /\ removed' = <<>>
    /\ UNCHANGED <<items, bus>>

\* remove_service(zeroconf, type, name)
remove_service(name) ==
    /\ Running
    /\ hosts' = RefreshedHosts
    /\ subs' = RefreshedSubs
    /\ removed' = <<>>
    /\ IF RefreshedHosts[name] # 0
       THEN obj' = [obj EXCEPT ![RefreshedHosts[name]] = inactivate(@)]
       ELSE obj' = obj
    /\ obs' = Status(obs, "removed", name)
    /\ UNCHANGED <<items, bus>>

\* An on_finished that deletes the entry itself
on_finished_direct(h) ==
    /\ Running
    /\ obj[h].pc = "fin"
    /\ removed' = removed
    /\ hosts' = [hosts EXCEPT ![obj[h].name] = 0]
    /\ obj' = [obj EXCEPT ![h].pc = "done", ![h].fins = @ + 1]
    /\ UNCHANGED <<items, subs, bus, obs>>

\* on_finished(name), called by the worker thread of object h
on_finished(h) ==
    /\ Running
    /\ obj[h].pc = "fin"
    /\ removed' = Append(removed, obj[h].name)
    /\ obj' = [obj EXCEPT ![h].pc = "done", ![h].fins = @ + 1]
    /\ UNCHANGED <<hosts, items, subs, bus, obs>>

\* An on_connect that subscribes to all/messages only
on_connect_all_only ==
    /\ bus.pc = "idle"
    /\ subs' = subs \cup {ALL_TOPIC}
    /\ obs' = [obs EXCEPT !.conn = TRUE,
                          !.sessions = IF (@ = 0 \/ ~obs.conn) /\ @ < MaxSessions
                                       THEN @ + 1 ELSE @]
    /\ UNCHANGED <<hosts, removed, obj, items, bus>>

\* on_connect: subscribe to all/messages and to every known device's topic
on_connect ==
    /\ bus.pc = "idle"
    /\ subs' = subs \cup {ALL_TOPIC}
                    \cup {get_messages_topic(n) : n \in {m \in Names : hosts[m] # 0}}
    /\ obs' = [obs EXCEPT !.conn = TRUE,
                          !.sessions = IF (@ = 0 \/ ~obs.conn) /\ @ < MaxSessions
                                       THEN @ + 1 ELSE @]
    /\ UNCHANGED <<hosts, removed, obj, items, bus>>

\* The connection to the broker is lost: mqtt.Client() asks for a clean
\* session, so the broker forgets the subscriptions; loop_forever reconnects
\* and on_connect is called again.
connection_lost ==
    /\ obs.conn
    /\ subs' = {}
    /\ obs' = [obs EXCEPT !.conn = FALSE]
    /\ UNCHANGED <<hosts, removed, obj, items, bus>>

\* ---------------------------------------------------------------- IRKitHost
\* A _is_in_service that compares with >= 0: one more iteration
is_in_service_late(t) ==
    IF t = NONE
    THEN [timeout |-> NONE, alive |-> TRUE]
    ELSE [timeout |-> t - 1, alive |-> t - 1 >= 0]

\* _is_in_service: the new service_timeout and the value returned
is_in_service(t) ==
    IF t = NONE
    THEN [timeout |-> NONE, alive |-> TRUE]
    ELSE [timeout |-> t - 1, alive |-> t - 1 > 0]

\* One more liveness check seen by a count of them (counts stop at the
\* timeout).
Tick(c) == IF c = NONE \/ c >= SERVICE_TIMEOUT THEN c ELSE c + 1

\* run(): while self._is_in_service()
Check(h) ==
    /\ Running
    /\ obj[h].pc = "check"
    /\ LET r == is_in_service(obj[h].service_timeout)
       IN  obj' = [obj EXCEPT ![h].service_timeout = r.timeout,
                              ![h].pc = IF r.alive THEN "poll" ELSE "fin",
                              ![h].leaves = IF r.alive THEN @ ELSE @ + 1,
                              ![h].since = Tick(@),
                              ![h].first = Tick(@)]
    /\ UNCHANGED <<hosts, removed, items, subs, bus, obs>>

\* run(): with self.sem: (entry) and the GET is sent
Acquire(h) ==
    /\ Running
    /\ obj[h].pc = "poll"
    /\ obj[h].sem > 0
    /\ obj' = [obj EXCEPT ![h].sem = @ - 1, ![h].pc = "get"]
    /\ UNCHANGED <<hosts, removed, items, subs, bus, obs>>

\* A run() whose failed GET keeps the semaphore
GetFail_leak(h) ==
    /\ Running
    /\ obj[h].pc = "get"
    /\ obj' = [obj EXCEPT ![h].pc = "check"]
    /\ UNCHANGED <<hosts, removed, items, subs, bus, obs>>

\* run(): the GET raises (timeout, connection error) or resp.json() raises:
\* the semaphore is released, the bare except logs, sleep, next iteration.
GetFail(h) ==
    /\ Running
    /\ obj[h].pc = "get"
    /\ obj' = [obj EXCEPT ![h].sem = @ + 1, ![h].pc = "check"]
    /\ UNCHANGED <<hosts, removed, items, subs, bus, obs>>

\* run(): the GET returns an empty body
GetEmpty(h) ==
    /\ Running
    /\ obj[h].pc = "get"
    /\ obj' = [obj EXCEPT ![h].sem = @ + 1, ![h].pc = "check", ![h].posted = NoMsg]
    /\ UNCHANGED <<hosts, removed, items, subs, bus, obs>>

\* run(): the GET returns the signal p; msg = resp.json()
GetMessage(h, p) ==
    /\ Running
    /\ obj[h].pc = "get"
    /\ obj' = [obj EXCEPT ![h].sem = @ + 1, ![h].pc = "put", ![h].msg = p,
                          ![h].echo = (p = obj[h].posted), ![h].posted = NoMsg]
    /\ UNCHANGED <<hosts, removed, items, subs, bus, obs>>

\* The last QueueSize signals of a sequence of them
Last(s) == IF Len(s) > QueueSize THEN Tail(s) ELSE s

\* run(): self.queue.put(msg), up to and including the append
PutLock(h) ==
    /\ Running
    /\ obj[h].pc = "put"
    /\ obj[h].qlock = "free"
    /\ items' = PutAppend(items, obj[h].msg)
    /\ obj' = [obj EXCEPT ![h].qlock = "worker", ![h].pc = "evict",
                          ![h].win = Last(Append(@, obj[h].msg))]
    /\ UNCHANGED <<hosts, removed, subs, bus, obs>>

\* A run() that does not publish a signal equal to the last one POSTed
PutDone_suppress(h) ==
    /\ Running
    /\ obj[h].pc = "evict"
    /\ items' = PutEvict(items)
    /\ obj' = [obj EXCEPT ![h].qlock = "free",
                          ![h].pc = IF obj[h].echo THEN "check" ELSE "pub",
                          ![h].msg = IF obj[h].echo THEN NoMsg ELSE @,
                          ![h].echo = FALSE]
    /\ UNCHANGED <<hosts, removed, subs, bus, obs>>

\* run(): the rest of put(): the eviction, and the lock is released
PutDone(h) ==
    /\ Running
    /\ obj[h].pc = "evict"
    /\ items' = PutEvict(items)
    /\ obj' = [obj EXCEPT ![h].qlock = "free", ![h].pc = "pub"]
    /\ UNCHANGED <<hosts, removed, subs, bus, obs>>

\* run(): mqtt_client.publish(topic, payload=json.dumps(msg)), sleep, next
\* iteration
Publish(h) ==
    /\ Running
    /\ obj[h].pc = "pub"
    /\ obj' = [obj EXCEPT ![h].pc = "check", ![h].msg = NoMsg, ![h].echo = FALSE]
    /\ UNCHANGED <<hosts, removed, items, subs, bus, obs>>

\* ------------------------------------------------------------- on_message
\* The orders in which a for loop over a dict may visit the objects of S
Orders(S) ==
    {o \in [1..Cardinality(S) -> S] : \A i, j \in 1..Cardinality(S) : o[i] = o[j] => i = j}

\* self.hosts.values(), or the hosts whose message topic is msg.topic
Targets(topic) ==
    LET to == SubSeq(topic, Len(TOPIC_BASE) + 1, Len(topic) - Len(MESSAGES))
    IN  IF to = ALL
        THEN {hosts[n] : n \in {m \in Names : hosts[m] # 0}}
        ELSE {hosts[n] : n \in {m \in Names : hosts[m] # 0 /\ get_messages_topic(m) = topic}}

\* The for loop of on_message goes on: post() on the next object, or return.
Advance(b) ==
    IF b.todo = <<>>
    THEN [b EXCEPT !.pc = "done", !.cur = 0, !.found = 0]
    ELSE [b EXCEPT !.pc = "has", !.cur = Head(b.todo), !.todo = Tail(b.todo),
                   !.found = 0, !.invoked = @ \cup {Head(b.todo)}]

\* except (ValueError, IOError): publish on ERROR_TOPIC, on_message returns.
Caught(b) ==
    [b EXCEPT !.pc = "done", !.cur = 0, !.found = 0, !.todo = <<>>, !.errs = @ + 1]

\* on_message(client, userdata, msg) up to the first post(): json.loads, the
\* two asserts, and the list of hosts to call.  The broker delivers only on
\* subscribed topics.
on_message(topic, raw) ==
    /\ bus.pc = "idle"
    /\ topic \in subs
    /\ LET r == JsonLoads(raw)
           b == [IdleBus EXCEPT !.topic = topic, !.raw = raw, !.cmd = r.value]
       IN  IF ~r.ok
           THEN bus' = Caught(b)
           ELSE IF ~(StartsWith(topic, TOPIC_BASE) /\ EndsWith(topic, MESSAGES))
           THEN bus' = [b EXCEPT !.pc = "crashed"]
           ELSE \E o \in Orders(Targets(topic)) :
                    bus' = Advance([b EXCEPT !.todo = o, !.snap = Targets(topic)])
    /\ UNCHANGED <<hosts, removed, obj, items, subs, obs>>

\* on_message returns
on_message_return ==
    /\ bus.pc = "done"
    /\ bus' = IdleBus
    /\ UNCHANGED <<hosts, removed, obj, items, subs, obs>>

\* The queue of device h: self.queue.items, which is ReceivedQueue.items
QueueItems(h) == items

\* The first occurrence of item removed from a window of signals
Consume(w, item) == IF item \in Range(w) THEN DelAt(w, IndexOf(w, item)) ELSE w

\* post(): self.queue.has(messages), the lock and `item in self.items`
HasIn(h) ==
    /\ bus.pc = "has"
    /\ bus.cur = h
    /\ obj[h].qlock = "free"
    /\ LET in == bus.cmd \in Range(items)
           b == [bus EXCEPT !.expectSkip =
                     IF bus.cmd \in Range(obj[h].win) THEN @ \cup {h} ELSE @]
       IN  /\ bus' = [b EXCEPT !.pc = IF in THEN "hasidx" ELSE "send"]
           /\ obj' = [obj EXCEPT ![h].qlock = IF in THEN "bus" ELSE "free",
                                 ![h].win = Consume(@, bus.cmd)]
    /\ UNCHANGED <<hosts, removed, items, subs, obs>>

\* has(): found = self.items.index(item); ValueError if another queue's put()
\* took the item away meanwhile
HasIndex(h) ==
    /\ bus.pc = "hasidx"
    /\ bus.cur = h
    /\ IF bus.cmd \in Range(items)
       THEN /\ bus' = [bus EXCEPT !.pc = "hasdel", !.found = IndexOf(items, bus.cmd)]
            /\ obj' = obj
       ELSE /\ bus' = Caught(bus)
            /\ obj' = [obj EXCEPT ![h].qlock = "free"]
    /\ UNCHANGED <<hosts, removed, items, subs, obs>>

\* has(): del self.items[found]; return True, and post() skips the POST.
\* IndexError, which on_message does not catch, if the list got shorter.
HasDel(h) ==
    /\ bus.pc = "hasdel"
    /\ bus.cur = h
    /\ IF bus.found <= Len(items)
       THEN /\ items' = DelAt(items, bus.found)
            /\ bus' = Advance([bus EXCEPT !.skipped = @ \cup {h}])
       ELSE /\ items' = items
            /\ bus' = [bus EXCEPT !.pc = "crashed"]
    /\ obj' = [obj EXCEPT ![h].qlock = "free"]
    /\ UNCHANGED <<hosts, removed, subs, obs>>

\* A post() that sends without taking self.sem
SendAcquire_unguarded(h) ==
    /\ bus.pc = "send"
    /\ bus.cur = h
    /\ obj' = obj
    /\ bus' = [bus EXCEPT !.pc = "post", !.sent = @ \cup {h}]
    /\ UNCHANGED <<hosts, removed, items, subs, obs>>

\* post(): with self.sem: (entry) and the POST is sent
SendAcquire(h) ==
    /\ bus.pc = "send"
    /\ bus.cur = h
    /\ obj[h].sem > 0
    /\ obj' = [obj EXCEPT ![h].sem = @ - 1]
    /\ bus' = [bus EXCEPT !.pc = "post", !.sent = @ \cup {h}]
    /\ UNCHANGED <<hosts, removed, items, subs, obs>>

\* post(): the POST returns; the semaphore is released
PostOk(h) ==
    /\ bus.pc = "post"
    /\ bus.cur = h
    /\ obj' = [obj EXCEPT ![h].sem = @ + 1, ![h].posted = bus.cmd]
    /\ bus' = Advance(bus)
    /\ UNCHANGED <<hosts, removed, items, subs, obs>>

\* post(): the POST raises (requests' exceptions are IOErrors); the semaphore
\* is released and the exception reaches on_message's except clause
PostFail(h) ==
    /\ bus.pc = "post"
    /\ bus.cur = h
    /\ obj' = [obj EXCEPT ![h].sem = @ + 1]
    /\ bus' = Caught(bus)
    /\ UNCHANGED <<hosts, removed, items, subs, obs>>

\* ------------------------------------------------------------ specifications
LifeNames == {NameAL}

\* Discovery and the workers' life cycle; devices that answer with an error
\* or an empty body.
NextLife ==
    \/ \E n \in LifeNames, info \in BOOLEAN : add_service(n, info)
    \/ \E n \in LifeNames : remove_service(n)
    \/ \E h \in Ids : Check(h)
    \/ \E h \in Ids : Acquire(h)
    \/ \E h \in Ids : GetFail(h)
    \/ \E h \in Ids : GetEmpty(h)
    \/ \E h \in Ids : on_finished(h)

SpecLife == Init /\ [][NextLife]_vars

\* Discovery and the workers' life cycle; devices whose every poll fails.
NextPoll ==
    \/ \E n \in LifeNames, info \in BOOLEAN : add_service(n, info)
    \/ \E n \in LifeNames : remove_service(n)
    \/ \E h \in Ids : Check(h)
    \/ \E h \in Ids : Acquire(h)
    \/ \E h \in Ids : GetFail(h)
    \/ \E h \in Ids : on_finished(h)

SpecPoll == Init /\ [][NextPoll]_vars

\* The worker threads are scheduled: a worker that can take its next step
\* (the liveness check, a GET that returns, the call of on_finished) takes
\* it.  Nothing makes a discovery event arrive.
FairWorkers ==
    \A h \in Ids :
        /\ WF_vars(Check(h))
        /\ WF_vars(Acquire(h))
        /\ WF_vars(GetFail(h) \/ GetEmpty(h))
        /\ WF_vars(on_finished(h))

SpecLifeFair == Init /\ [][NextLife]_vars /\ FairWorkers

\* Topics a message may arrive on
Topics == {ALL_TOPIC} \cup {get_messages_topic(n) : n \in Names}

OneName == {NameB}
TwoNames == {NameAL, NameAN}

\* Discovery and the life cycle of two devices whose names share the part
\* before the first '.'; one of them is reported as removed; their polls
\* fail.
NextShare ==
    \/ \E n \in TwoNames, info \in BOOLEAN : add_service(n, info)
    \/ \E n \in LifeNames : remove_service(n)
    \/ \E h \in Ids : Check(h)
    \/ \E h \in Ids : Acquire(h)
    \/ \E h \in Ids : GetFail(h)
    \/ \E h \in Ids : on_finished(h)

SpecShare == Init /\ [][NextShare]_vars

\* One device, two signals: polls, bus messages and post().
NextRelay ==
    \/ \E n \in OneName, info \in BOOLEAN : add_service(n, info)
    \/ on_connect
    \/ \E t \in Topics, raw \in RawPayloads : on_message(t, raw)
    \/ on_message_return
    \/ \E h \in Ids : Check(h)
    \/ \E h \in Ids : Acquire(h)
    \/ \E h \in Ids : GetFail(h)
    \/ \E h \in Ids : GetEmpty(h)
    \/ \E h \in Ids, p \in Payloads : GetMessage(h, p)
    \/ \E h \in Ids : PutLock(h)
    \/ \E h \in Ids : PutDone(h)
    \/ \E h \in Ids : Publish(h)
    \/ \E h \in Ids : HasIn(h)
    \/ \E h \in Ids : HasIndex(h)
    \/ \E h \in Ids : HasDel(h)
    \/ \E h \in Ids : SendAcquire(h)
    \/ \E h \in Ids : PostOk(h)
    \/ \E h \in Ids : PostFail(h)

SpecRelay == Init /\ [][NextRelay]_vars

\* Devices that answer their polls with an error or an empty body: bus
\* messages and post().
NextRoute ==
    \/ \E n \in Names, info \in BOOLEAN : add_service(n, info)
    \/ on_connect
    \/ \E t \in Topics, raw \in RawPayloads : on_message(t, raw)
    \/ on_message_return
    \/ \E h \in Ids : Check(h)
    \/ \E h \in Ids : Acquire(h)
    \/ \E h \in Ids : GetFail(h)
    \/ \E h \in Ids : GetEmpty(h)
    \/ \E h \in Ids : HasIn(h)
    \/ \E h \in Ids : SendAcquire(h)
    \/ \E h \in Ids : PostOk(h)
    \/ \E h \in Ids : PostFail(h)

SpecRoute == Init /\ [][NextRoute]_vars

\* Two devices that answer their polls with the same signal; no bus messages.
NextPut ==
    \/ \E n \in TwoNames, info \in BOOLEAN : add_service(n, info)
    \/ \E h \in Ids : Check(h)
    \/ \E h \in Ids : Acquire(h)
    \/ \E h \in Ids : GetFail(h)
    \/ \E h \in Ids : GetEmpty(h)
    \/ \E h \in Ids : GetMessage(h, 1)
    \/ \E h \in Ids : PutLock(h)
    \/ \E h \in Ids : PutDone(h)
    \/ \E h \in Ids : Publish(h)

SpecPut == Init /\ [][NextPut]_vars

\* Discovery of up to MaxHosts devices, their polls, and a connection to the
\* broker that is lost and re-established.
NextConn ==
    \/ \E n \in Names, info \in BOOLEAN : add_service(n, info)
    \/ on_connect
    \/ connection_lost
    \/ \E h \in Ids : Check(h)
    \/ \E h \in Ids : Acquire(h)
    \/ \E h \in Ids : GetFail(h)

SpecConn == Init /\ [][NextConn]_vars

\* The calls kept in obs.log
LogSize == 3

Logged(call) ==
    [obs EXCEPT !.log = IF Len(@) >= LogSize THEN Append(Tail(@), call)
                                              ELSE Append(@, call)]

\* ReceivedQueue.put(x), nothing interleaved
CachePut(x) ==
    /\ items' = PutEvict(PutAppend(items, x))
    /\ obs' = Logged([op |-> "put", item |-> x, result |-> TRUE])
    /\ UNCHANGED <<hosts, removed, obj, subs, bus>>

\* ReceivedQueue.has(x), nothing interleaved
CacheHas(x) ==
    /\ items' = IF x \in Range(items) THEN DelAt(items, IndexOf(items, x)) ELSE items
    /\ obs' = Logged([op |-> "has", item |-> x, result |-> x \in Range(items)])
    /\ UNCHANGED <<hosts, removed, obj, subs, bus>>

\* One ReceivedQueue used by one thread.
NextCache ==
    \/ \E x \in Payloads : CachePut(x)
    \/ \E x \in Payloads : CacheHas(x)

SpecCache == Init /\ [][NextCache]_vars

\* ------------------------------------------------------------------- claims
\* C1 as stated: once an inactivate() has been followed by 60 liveness checks
\* with no activate() among them, the worker has left its run loop.
C1_Original ==
    \A h \in Ids : obj[h].first >= SERVICE_TIMEOUT => obj[h].pc \in Exited

\* C1, amended: the countdown runs from the most recent inactivate().  A worker
\* leaves its run loop only at a liveness check, and only at the 60th one since
\* the most recent inactivate() with no activate() since; by then it has left;
\* it leaves once, never re-enters, and on_finished is called exactly once.
C1_Lifecycle ==
    /\ [](\A h \in Ids :
            /\ obj[h].since = SERVICE_TIMEOUT => obj[h].pc \in Exited
            /\ obj[h].leaves = (IF obj[h].pc \in Exited THEN 1 ELSE 0)
            /\ obj[h].fins = (IF obj[h].pc = "done" THEN 1 ELSE 0))
    /\ [][\A h \in Ids :
            /\ (obj[h].pc \in InLoop /\ obj'[h].pc \notin InLoop)
                  => /\ obj[h].pc = "check"
                     /\ obj'[h].pc = "fin"
                     /\ obj[h].since = SERVICE_TIMEOUT - 1
                     /\ obj'[h].since = SERVICE_TIMEOUT
            /\ obj[h].pc \in Exited => obj'[h].pc \in Exited]_vars

\* A worker that ran 60 liveness checks after an inactivate(), left its loop
\* and has called on_finished.
C1_Witness ==
    \E h \in Ids :
        /\ obj[h].pc = "done"
        /\ obj[h].since = SERVICE_TIMEOUT
        /\ obj[h].leaves = 1
        /\ obj[h].fins = 1

\* add_service(n) leaves the entry of n Active, with the same worker, no new
\* object and no subscribe call.
Reactivated(n) ==
    /\ hosts'[n] = hosts[n]
    /\ obj'[hosts[n]].service_timeout = NONE
    /\ obj'[hosts[n]].pc = obj[hosts[n]].pc
    /\ {i \in Ids : obj'[i].pc # "unborn"} = Born
    /\ obs'.subFlip = obs.subFlip

\* C2 as stated: an add_service(n) that arrives while n is draining
\* reactivates n, whatever get_service_info returned.
C2_Original ==
    [][\A n \in Names, info \in BOOLEAN :
        (Draining(n) /\ add_service(n, info)) => Reactivated(n)]_vars

\* C2, amended: an add_service(n) with resolvable service info that arrives
\* while n is draining reactivates n: same worker, still running, no pending
\* countdown, no object constructed, no subscribe issued.
C2_Reannounce ==
    [][\A n \in Names :
        (Draining(n) /\ add_service(n, TRUE)) => Reactivated(n)]_vars

\* n was re-announced while it was draining and is Active, its worker in the
\* loop.
C2_Witness ==
    \E n \in Names :
        /\ hosts[n] # 0
        /\ obj[hosts[n]].revived
        /\ obj[hosts[n]].service_timeout = NONE
        /\ obj[hosts[n]].pc \in InLoop


\* Network calls in flight to the device of object h
InFlight(h) ==
    (IF obj[h].pc = "get" THEN 1 ELSE 0)
        + (IF bus.pc = "post" /\ bus.cur = h THEN 1 ELSE 0)

Handled == bus.pc = "done" /\ bus.raw \in {JsonDumps(v) : v \in Payloads}

\* C5: a message on a device's topic gives exactly one POST, unless the
\* signal is among the last 5 the device's poll put in the cache and not yet
\* consumed: then no POST, and the entry is consumed.
C5_Original ==
    (Handled /\ bus.topic # ALL_TOPIC)
        => \A h \in bus.snap :
              IF h \in bus.expectSkip
              THEN h \notin bus.sent /\ h \in bus.skipped
              ELSE h \in bus.sent /\ h \notin bus.skipped

\* C6: whenever the lock of a device's queue is free, the queue holds at most
\* QueueSize entries.
C6_Original ==
    \A h \in Born : obj[h].qlock = "free" => Len(items) <= QueueSize

\* C7, first part: after put(x) the first has(x) returns true.
C7_Original ==
    LET n == Len(obs.log)
    IN  (n >= 2 /\ obs.log[n - 1].op = "put" /\ obs.log[n].op = "has"
              /\ obs.log[n - 1].item = obs.log[n].item)
            => obs.log[n].result

\* C8: a well-formed broadcast message has post() invoked on every device
\* that was in the registry, whatever the POSTs did.
C8_Original ==
    (Handled /\ bus.topic = ALL_TOPIC) => bus.invoked = bus.snap

\* C9: a well-formed message on one device's topic, when no POST fails, has
\* post() invoked on that device and on no other.
C9_Original ==
    (Handled /\ bus.topic # ALL_TOPIC /\ bus.errs = 0)
        => \A h \in bus.snap : bus.invoked = {h}

Malformed(raw) == raw \notin {JsonDumps(v) : v \in Payloads}

\* C10: a message whose payload is not JSON gives one publication on the
\* error topic and no post(); handling it changes neither the registry nor
\* the cache nor any device, and on_message returns to the state it started
\* from, so the next message is handled as if this one had not arrived.
C10_Malformed ==
    /\ []((bus.pc = "done" /\ Malformed(bus.raw))
            => bus.errs = 1 /\ bus.invoked = {} /\ bus.sent = {} /\ bus.skipped = {})
    /\ [][(bus.pc = "idle" /\ bus'.pc # "idle" /\ Malformed(bus'.raw))
            => /\ bus'.pc = "done"
               /\ UNCHANGED <<hosts, removed, obj, items, subs>>]_vars
    /\ [][(bus.pc = "done" /\ bus'.pc # "done")
            => /\ bus' = IdleBus
               /\ UNCHANGED <<hosts, removed, obj, items, subs>>]_vars

\* A malformed message was reported while a device is registered and its
\* cache holds a signal.
C10_Witness ==
    /\ bus.pc = "done"
    /\ Malformed(bus.raw)
    /\ bus.errs = 1
    /\ Born # {}
    /\ items # <<>>

\* C11: an on_connect callback leaves the client subscribed to all/messages
\* and to the message topic of every device in the registry, and takes no
\* subscription away; this holds for the first connection and for every
\* reconnection.
C11_Resubscribe ==
    [][on_connect
        => /\ ALL_TOPIC \in subs'
           /\ \A n \in Names : hosts'[n] # 0 => get_messages_topic(n) \in subs'
           /\ subs \subseteq subs']_vars

\* After a reconnection the client is subscribed to all/messages and to the
\* topics of two registered devices.
C11_Witness ==
    /\ obs.conn
    /\ obs.sessions = MaxSessions
    /\ Cardinality(Born) >= 2
    /\ ALL_TOPIC \in subs
    /\ \A n \in Names : hosts[n] # 0 => get_messages_topic(n) \in subs

\* Workers of discovery name n that have not left their run loop
LiveWorkers(n) == {h \in Ids : obj[h].name = n /\ obj[h].pc \in InLoop}

\* C12: at every moment at most one worker per discovery name has not left
\* its run loop, and a worker is constructed for a name only when the
\* registry, once the pending removals are applied, has no entry for it; the
\* new worker then is the entry of that name.
C12_OneWorker ==
    /\ [](\A n \in Names : Cardinality(LiveWorkers(n)) <= 1)
    /\ [][\A h \in Ids :
            (obj[h].pc = "unborn" /\ obj'[h].pc # "unborn")
                => /\ RefreshedHosts[obj'[h].name] = 0
                   /\ LiveWorkers(obj'[h].name) = {}
                   /\ hosts'[obj'[h].name] = h]_vars

\* A name announced again after its first worker terminated: the first
\* worker has finished, the second is the entry and runs.
C12_Witness ==
    \E h, g \in Ids :
        /\ h # g
        /\ obj[h].name = obj[g].name
        /\ obj[h].pc = "done"
        /\ obj[g].pc \in InLoop
        /\ hosts[obj[g].name] = g

\* C13: a failed poll leaves the worker in its run loop, at the next liveness
\* check, with the semaphore released; it changes neither service_timeout
\* nor the cache nor the registry nor the subscriptions, and publishes
\* nothing.
C13_PollFailure ==
    [][\A h \in Ids :
        GetFail(h)
            => /\ obj'[h].pc = "check"
               /\ obj'[h].sem = SemInit
               /\ obj'[h].service_timeout = obj[h].service_timeout
               /\ obj'[h].msg = NoMsg
               /\ \A g \in Ids \ {h} : obj'[g] = obj[g]
               /\ UNCHANGED <<hosts, removed, items, subs, bus, obs>>]_vars

\* A draining worker whose polls all failed is polling again: its GET is in
\* flight after at least one failed poll since inactivate().
C13_Witness ==
    \E h \in Ids :
        /\ obj[h].pc = "get"
        /\ obj[h].sem = 0
        /\ obj[h].since >= 2
        /\ obj[h].service_timeout = SERVICE_TIMEOUT - obj[h].since

\* C14: when on_message has handled a well-formed message, whatever the
\* POSTs did, nothing was published on the error topic: no exception of
\* post() reached on_message.
C14_Original ==
    Handled => bus.errs = 0

\* C15: after put(x) returns, x is the newest entry of the cache.
C15_Original ==
    LET n == Len(obs.log)
    IN  (n >= 1 /\ obs.log[n].op = "put")
            => (items # <<>> /\ items[Len(items)] = obs.log[n].item)

\* C16: a put for device h leaves the cache of every other device as it was.
C16_Original ==
    [][\A h, g \in Born :
        (h # g /\ PutLock(h)) => QueueItems(g)' = QueueItems(g)]_vars

\* C17: on_finished only appends the name to removed: the registry and the
\* subscriptions stay as they are.  The entry of a name leaves the registry
\* only in a step of add_service or remove_service, and only if the name was
\* queued in removed; that step applies every queued name (its entry is
\* deleted, or replaced by a new object if the step announces that name),
\* unsubscribes its topic (unless the step subscribes that topic for a new
\* object) and leaves removed empty.
C17_Drain ==
    /\ [][\A h \in Ids :
            on_finished(h)
                => /\ removed' = Append(removed, obj[h].name)
                   /\ UNCHANGED <<hosts, subs>>]_vars
    /\ [][(\E n \in Names : hosts[n] # 0 /\ hosts'[n] # hosts[n])
            => /\ \/ \E n \in Names, info \in BOOLEAN : add_service(n, info)
                  \/ \E n \in Names : remove_service(n)
               /\ removed' = <<>>
               /\ \A n \in Names :
                     /\ (hosts[n] # 0 /\ hosts'[n] # hosts[n]) => n \in Range(removed)
                     /\ n \in Range(removed)
                           => /\ hosts'[n] # hosts[n]
                              /\ hosts'[n] = 0 \/ obj[hosts'[n]].pc = "unborn"
                              /\ \/ get_messages_topic(n) \notin subs'
                                 \/ \E m \in Names :
                                       /\ hosts'[m] # 0
                                       /\ obj[hosts'[m]].pc = "unborn"
                                       /\ get_messages_topic(m) = get_messages_topic(n)]_vars

\* A worker has called on_finished: its name is queued in removed and its
\* entry is still in the registry, its topic still subscribed.
C17_Witness ==
    \E h \in Ids :
        /\ obj[h].pc = "done"
        /\ hosts[obj[h].name] = h
        /\ obj[h].name \in Range(removed)
        /\ get_messages_topic(obj[h].name) \in subs

\* C18: while the worker of a registered device is in its run loop, the
\* device's message topic is subscribed.
C18_Original ==
    \A n \in Names :
        (hosts[n] # 0 /\ obj[hosts[n]].pc \in InLoop)
            => get_messages_topic(n) \in subs

\* C19: once a worker has left its run loop, eventually no registry entry
\* refers to it, whether or not a discovery event arrives.
C19_Original ==
    \A h \in Ids :
        (obj[h].pc \in Exited) ~> (\A n \in Names : hosts[n] # h)

\* C20: a registry entry that is Active (constructed or activated by an
\* add_service with service info, and not inactivated since) has its worker
\* in the poll loop.
C20_Original ==
    \A n \in Names :
        (hosts[n] # 0 /\ obj[hosts[n]].service_timeout = NONE)
            => obj[hosts[n]].pc \in InLoop

====
